---- MODULE Spec2Model ----
(***************************************************************************)
(* A model of the hooks of packages/hooks/src:                             *)
(*   useDebounce.ts      the debounced-value tracker                       *)
(*   useLocalStorage.ts  the persisted key-value cell                      *)
(*   useMediaQuery.ts    the media-query tracker                           *)
(* Each hook is modelled with the React life cycle it is written against:  *)
(* a render captures props and state in closures, an effect runs after a   *)
(* render whose dependencies changed (its cleanup first), and the cleanup  *)
(* runs on unmount.  A render and the effects it triggers are one step.    *)
(* Time is counted in milliseconds; a timer fires when its delay has       *)
(* elapsed, before the clock moves on (the timer service of the tests).    *)
(***************************************************************************)
EXTENDS Integers, Sequences, FiniteSets, TLC

(***************************************************************************)
(* Bounds of the model.                                                    *)
(***************************************************************************)
\* timers the tracker may arm in one run (one per effect run)
MaxTimers == 4
\* the clock stops this many milliseconds after the default delay
ExtraTime == 2
\* the time since the latest render is counted up to this many milliseconds
InputWindow == 3

(***************************************************************************)
(*                     useDebounce: the debounced value                    *)
(***************************************************************************)
VARIABLES
  value,            \* the value prop of the latest render
  delayProp,        \* the delay argument of the latest render (may be omitted)
  debouncedValue,   \* the state the hook returns
  timers,           \* the pending timeouts of the timer service
  handler,          \* the timeout id held by the latest effect's cleanup
  nextTimerId,      \* the id setTimeout returns next
  mounted,          \* FALSE once the component is unmounted
  sinceArm,         \* history: milliseconds since the effect last ran
  armCause,         \* history: why the effect last ran
  committedAtArm,   \* history: debouncedValue when the effect last ran
  sinceInput        \* history: milliseconds since the latest render, up to
                    \* InputWindow

dvars == <<value, delayProp, debouncedValue, timers, handler, nextTimerId,
           mounted, sinceArm, armCause, committedAtArm, sinceInput>>

\* the inputs of the tracker
DValues == {"a", "b", "c"}
Delays == {0, 1, 2}
DelayArgs == {[given |-> TRUE, ms |-> d] : d \in Delays}
               \cup {[given |-> FALSE, ms |-> 0]}

DefaultDelay == 300

\* the default parameter value: delay: number = 300
DelayOrDefault(arg) == IF arg.given THEN arg.ms ELSE DefaultDelay

\* the delay the latest render sees
delay == DelayOrDefault(delayProp)

MaxElapsed == DefaultDelay + ExtraTime

\* an effect without a dependency array: it reruns after every render
AlwaysChanged(v, d) == TRUE

\* the dependency array [value, delay]: the effect reruns when one changed
DepsChanged(v, d) == v # value \/ d # delay

\* setTimeout(() => setDebouncedValue(value), delay) armed one millisecond early
SetTimeoutEarly(ts, id, v, d) ==
  ts \cup {[id |-> id, val |-> v, remaining |-> IF d > 0 THEN d - 1 ELSE 0]}

\* setTimeout(() => setDebouncedValue(value), delay): the callback closes
\* over the value of this render
SetTimeout(ts, id, v, d) ==
  ts \cup {[id |-> id, val |-> v, remaining |-> d]}

\* a cleanup that leaves the timeout armed
CleanupKeepsTimer(ts, h) == ts

\* the effect's cleanup: clearTimeout(handler)
EffectCleanup(ts, h) == {t \in ts : t.id # h}

\* a timeout whose delay has elapsed
Due(t) == t.remaining = 0

DebounceInit ==
  \E v \in DValues, a \in DelayArgs :
    /\ value = v
    /\ delayProp = a
    /\ debouncedValue = v
    /\ timers = SetTimeout({}, 1, v, DelayOrDefault(a))
    /\ handler = 1
    /\ nextTimerId = 2
    /\ mounted = TRUE
    /\ sinceArm = 0
    /\ armCause = "mount"
    /\ committedAtArm = v
    /\ sinceInput = 0

\* the parent renders the hook with props (v, a)
Rerender(v, a) ==
  /\ mounted
  /\ DepsChanged(v, DelayOrDefault(a))
  /\ nextTimerId <= MaxTimers
  /\ value' = v
  /\ delayProp' = a
  /\ timers' = SetTimeout(EffectCleanup(timers, handler), nextTimerId, v,
                          DelayOrDefault(a))
  /\ handler' = nextTimerId
  /\ nextTimerId' = nextTimerId + 1
  /\ sinceArm' = 0
  /\ armCause' = IF v # value THEN "value" ELSE "delay"
  /\ committedAtArm' = debouncedValue
  /\ sinceInput' = 0
  /\ UNCHANGED <<debouncedValue, mounted>>

\* a render with unchanged dependencies: the effect does not run again
RerenderSameDeps(v, a) ==
  /\ mounted
  /\ ~DepsChanged(v, DelayOrDefault(a))
  /\ delayProp' = a
  /\ sinceInput' = 0
  /\ UNCHANGED <<value, debouncedValue, timers, handler, nextTimerId, mounted,
                 sinceArm, armCause, committedAtArm>>

\* the timer service runs a due callback: setDebouncedValue(value); React
\* drops a state update of an unmounted component
FireTimer ==
  \E t \in timers :
    /\ Due(t)
    /\ timers' = timers \ {t}
    /\ debouncedValue' = IF mounted THEN t.val ELSE debouncedValue
    /\ UNCHANGED <<value, delayProp, handler, nextTimerId, mounted, sinceArm,
                   armCause, committedAtArm, sinceInput>>

\* one millisecond passes; due callbacks run first
Tick ==
  /\ \A t \in timers : ~Due(t)
  /\ sinceArm < MaxElapsed
  /\ timers' = {[t EXCEPT !.remaining = @ - 1] : t \in timers}
  /\ sinceArm' = sinceArm + 1
  /\ sinceInput' = IF sinceInput < InputWindow THEN sinceInput + 1
                                              ELSE sinceInput
  /\ UNCHANGED <<value, delayProp, debouncedValue, handler, nextTimerId,
                 mounted, armCause, committedAtArm>>

\* the component is unmounted: the effect's cleanup runs
Unmount ==
  /\ mounted
  /\ mounted' = FALSE
  /\ timers' = EffectCleanup(timers, handler)
  /\ UNCHANGED <<value, delayProp, debouncedValue, handler, nextTimerId,
                 sinceArm, armCause, committedAtArm, sinceInput>>

DebounceNext ==
  \/ \E v \in DValues, a \in DelayArgs : Rerender(v, a)
  \/ \E v \in DValues, a \in DelayArgs : RerenderSameDeps(v, a)
  \/ FireTimer
  \/ Tick
  \/ Unmount

(***************************************************************************)
(*                 useLocalStorage: the persisted cell                     *)
(***************************************************************************)
VARIABLES
  store,            \* window.localStorage of the origin: key -> text or null
  open,             \* the contexts that are open during the run
  win,              \* per context: typeof window !== 'undefined'
  phase,            \* per context: "none", "live" (mounted) or "dead"
  storedValue,      \* per context: the state the hook returns
  capturedValue,    \* per context: storedValue as the latest render's
                    \* setValue closure captured it
  inbox,            \* per context: storage events not yet dispatched
  clean,            \* history: since the latest creation no store operation
                    \* failed, only JSON values were written, no other
                    \* context wrote to the store and no event was handled
  last              \* history: the outcome of the latest operation

svars == <<store, open, win, phase, storedValue, capturedValue, inbox, clean,
          last>>

\* the contexts (tabs or a server render) that share the origin's store
Contexts == {1, 2}

\* the key of the cell and another key of the same store
Key == "theme"
Keys == {Key, "other"}

\* the initialValue argument
Fallback == "'light'"

\* JavaScript values a caller may write; the last two are not JSON values
JSONValues == {"'light'", "'dark'", "null"}
Values == JSONValues \cup {"undefined", "{cyclic}"}

\* what getItem returns for a missing key and what newValue is on removal
NoItem == "<null>"
\* the state of a cell that was never created
NoValue == "<none>"

\* the texts found in the store: the results of JSON.stringify, the text
\* setItem makes of undefined, and texts other code may have left there
Texts == {"\"light\"", "\"dark\"", "null", "undefined", "{oops", ""}
ExternalTexts == {"\"dark\"", "{oops", ""}

\* functional updates: (val) => val === 'light' ? 'dark' : 'light', and one
\* that throws
Updaters == {"toggle", "boom"}
Args == {[fn |-> FALSE, v |-> x] : x \in Values}
          \cup {[fn |-> TRUE, v |-> f] : f \in Updaters}

UpdaterThrows(f) == f = "boom"
ApplyUpdater(f, prev) == IF prev = "'light'" THEN "'dark'" ELSE "'light'"

\* JSON.stringify throws on a cyclic structure
StringifyThrows(v) == v = "{cyclic}"

\* String(v) in place of JSON.stringify(v)
StringOf(v) ==
  CASE v = "'light'" -> "light"
    [] v = "'dark'" -> "dark"
    [] OTHER -> v

\* JSON.stringify(v), then the DOMString conversion of setItem's argument:
\* JSON.stringify(undefined) is undefined, which setItem stores as "undefined"
Stringify(v) ==
  CASE v = "'light'" -> "\"light\""
    [] v = "'dark'" -> "\"dark\""
    [] v = "null" -> "null"
    [] v = "undefined" -> "undefined"

\* JSON.parse throws a SyntaxError on a text that is not JSON
ParseThrows(t) == t \notin {"\"light\"", "\"dark\"", "null"}

\* JSON.parse(t)
Parse(t) ==
  CASE t = "\"light\"" -> "'light'"
    [] t = "\"dark\"" -> "'dark'"
    [] t = "null" -> "null"

\* item !== null in place of the truthiness test
NotNull(item) == item # NoItem

\* truthiness of what getItem returned: null and "" are falsy
Truthy(item) == item # NoItem /\ item # ""

\* a catch block that lets the error through
Rethrown(r) == [r EXCEPT !.threw = (r.exc # "none")]

\* catch (error) { console.warn(...) }: the error is logged and absorbed
Caught(r) == [r EXCEPT !.warned = (r.exc # "none")]

\* the completion of a handler body: value is the state the cell is left
\* with, st the store, exc the exception that ended the body ("none" if it
\* ran to its end), accessed whether a localStorage method was called
Completion(v, st, exc, accessed) ==
  [value |-> v, st |-> st, exc |-> exc, accessed |-> accessed,
   warned |-> FALSE, threw |-> FALSE]

\* the useState initializer
Initializer(hasWindow, st, storeFails) ==
  IF ~hasWindow THEN Completion(Fallback, st, "none", FALSE)
  ELSE Caught(
    IF storeFails THEN Completion(Fallback, st, "getItem", TRUE)
    ELSE LET item == st[Key] IN
      IF Truthy(item)
        THEN IF ParseThrows(item)
               THEN Completion(Fallback, st, "parse", TRUE)
               ELSE Completion(Parse(item), st, "none", TRUE)
        ELSE Completion(Fallback, st, "none", TRUE))

\* setValue with the store write ahead of the state update
SetValueStoreFirst(hasWindow, st, cur, captured, arg, storeFails) ==
  Caught(
    IF arg.fn /\ UpdaterThrows(arg.v) THEN Completion(cur, st, "updater", FALSE)
    ELSE LET valueToStore == IF arg.fn THEN ApplyUpdater(arg.v, captured)
                                       ELSE arg.v IN
      IF ~hasWindow THEN Completion(valueToStore, st, "none", FALSE)
      ELSE IF StringifyThrows(valueToStore)
        THEN Completion(cur, st, "stringify", FALSE)
      ELSE IF storeFails
        THEN Completion(cur, st, "setItem", TRUE)
      ELSE Completion(valueToStore,
                      [st EXCEPT ![Key] = Stringify(valueToStore)],
                      "none", TRUE))

\* setValue: the state is updated before the store is written
SetValue(hasWindow, st, cur, captured, arg, storeFails) ==
  Caught(
    IF arg.fn /\ UpdaterThrows(arg.v) THEN Completion(cur, st, "updater", FALSE)
    ELSE LET valueToStore == IF arg.fn THEN ApplyUpdater(arg.v, captured)
                                       ELSE arg.v IN
      IF ~hasWindow THEN Completion(valueToStore, st, "none", FALSE)
      ELSE IF StringifyThrows(valueToStore)
        THEN Completion(valueToStore, st, "stringify", FALSE)
      ELSE IF storeFails
        THEN Completion(valueToStore, st, "setItem", TRUE)
      ELSE Completion(valueToStore,
                      [st EXCEPT ![Key] = Stringify(valueToStore)],
                      "none", TRUE))

\* removeValue that resets the state and leaves the entry in the store
RemoveValueKeepsEntry(hasWindow, st, cur, storeFails) ==
  Caught(
    IF ~hasWindow THEN Completion(Fallback, st, "none", FALSE)
    ELSE IF storeFails THEN Completion(cur, st, "removeItem", TRUE)
    ELSE Completion(Fallback, st, "none", TRUE))

\* removeValue: removeItem first, then setStoredValue(initialValue)
RemoveValue(hasWindow, st, cur, storeFails) ==
  Caught(
    IF ~hasWindow THEN Completion(Fallback, st, "none", FALSE)
    ELSE IF storeFails THEN Completion(cur, st, "removeItem", TRUE)
    ELSE Completion(Fallback, [st EXCEPT ![Key] = NoItem], "none", TRUE))

\* a handler that acts on every key
MatchesAnyKey(e) == e.newValue # NoItem

\* the events the handler acts on: e.key === key && e.newValue !== null
Matches(e) == e.key = Key /\ e.newValue # NoItem

\* a storage-event handler that adopts the raw text
HandleStorageChangeRaw(st, cur, e) ==
  IF Matches(e)
    THEN Caught(Completion(e.newValue, st, "none", FALSE))
    ELSE Completion(cur, st, "none", FALSE)

\* handleStorageChange
HandleStorageChange(st, cur, e) ==
  IF Matches(e)
    THEN Caught(
      IF ParseThrows(e.newValue) THEN Completion(cur, st, "parse", FALSE)
      ELSE Completion(Parse(e.newValue), st, "none", FALSE))
    ELSE Completion(cur, st, "none", FALSE)

\* pending storage events per context
MaxInbox == 1

\* the outcome of an operation as the history records it
Outcome(op, c, r) ==
  [op |-> op, ctx |-> c, exc |-> r.exc, warned |-> r.warned,
   threw |-> r.threw, accessed |-> r.accessed]

\* the storage event of a change of key k from old to new: it is queued for
\* every other context with a window, and only when the entry changed
Recipients(from) == {d \in open : d # from /\ win[d]}
Broadcast(from, k, old, new) ==
  [d \in Contexts |->
     IF d \in Recipients(from) /\ old # new
       THEN Append(inbox[d], [key |-> k, newValue |-> new])
       ELSE inbox[d]]
CanBroadcast(from) == \A d \in Recipients(from) : Len(inbox[d]) < MaxInbox

StorageInit ==
  /\ store \in [Keys -> {NoItem} \cup ExternalTexts]
  /\ store["other"] = NoItem
  /\ open = {1}
  /\ win \in [Contexts -> BOOLEAN]
  /\ win[2]
  /\ phase = [c \in Contexts |-> "none"]
  /\ storedValue = [c \in Contexts |-> NoValue]
  /\ capturedValue = [c \in Contexts |-> NoValue]
  /\ inbox = [c \in Contexts |-> <<>>]
  /\ clean = FALSE
  /\ last = [op |-> "init", ctx |-> 0, exc |-> "none", warned |-> FALSE,
             threw |-> FALSE, accessed |-> FALSE]

\* a component using the hook mounts in context c: the initializer runs, the
\* first render captures its result, the effect subscribes to storage events
Create(c, storeFails) ==
  /\ c \in open
  /\ phase[c] # "live"
  /\ LET r == Initializer(win[c], store, storeFails) IN
       /\ phase' = [phase EXCEPT ![c] = "live"]
       /\ storedValue' = [storedValue EXCEPT ![c] = r.value]
       /\ capturedValue' = [capturedValue EXCEPT ![c] = r.value]
       /\ last' = Outcome("create", c, r)
       /\ clean' = (r.exc # "getItem")
  /\ UNCHANGED <<store, open, win, inbox>>

\* the caller invokes the setValue of the latest render
Write(c, arg, storeFails) ==
  /\ phase[c] = "live"
  /\ CanBroadcast(c)
  /\ LET r == SetValue(win[c], store, storedValue[c], capturedValue[c], arg,
                       storeFails) IN
       /\ storedValue' = [storedValue EXCEPT ![c] = r.value]
       /\ store' = r.st
       /\ inbox' = Broadcast(c, Key, store[Key], r.st[Key])
       /\ last' = Outcome("write", c, r)
       /\ clean' = (clean /\ r.exc \notin {"stringify", "setItem"}
                          /\ r.value \in JSONValues)
  /\ UNCHANGED <<open, win, phase, capturedValue>>

\* the caller invokes removeValue
Clear(c, storeFails) ==
  /\ phase[c] = "live"
  /\ CanBroadcast(c)
  /\ LET r == RemoveValue(win[c], store, storedValue[c], storeFails) IN
       /\ storedValue' = [storedValue EXCEPT ![c] = r.value]
       /\ store' = r.st
       /\ inbox' = Broadcast(c, Key, store[Key], r.st[Key])
       /\ last' = Outcome("clear", c, r)
       /\ clean' = (clean /\ r.exc = "none")
  /\ UNCHANGED <<open, win, phase, capturedValue>>

\* the window of context c dispatches its next storage event; the handler
\* is registered while the cell is mounted
Deliver(c) ==
  /\ inbox[c] # <<>>
  /\ inbox' = [inbox EXCEPT ![c] = Tail(@)]
  /\ IF phase[c] = "live" /\ win[c]
       THEN LET r == HandleStorageChange(store, storedValue[c], Head(inbox[c])) IN
              /\ storedValue' = [storedValue EXCEPT ![c] = r.value]
              /\ last' = Outcome(IF Matches(Head(inbox[c])) THEN "notify"
                                                             ELSE "ignore", c, r)
              /\ clean' = (clean /\ ~Matches(Head(inbox[c])))
       ELSE /\ UNCHANGED <<storedValue, clean>>
            /\ last' = Outcome("drop", c,
                               Completion(NoValue, store, "none", FALSE))
  /\ UNCHANGED <<store, open, win, phase, capturedValue>>

\* React renders the component again after a state update: setValue is
\* recreated with the current storedValue
Render(c) ==
  /\ phase[c] = "live"
  /\ capturedValue[c] # storedValue[c]
  /\ capturedValue' = [capturedValue EXCEPT ![c] = storedValue[c]]
  /\ last' = Outcome("render", c, Completion(NoValue, store, "none", FALSE))
  /\ UNCHANGED <<store, open, win, phase, storedValue, inbox, clean>>

\* the component unmounts: the effect's cleanup removes the listener
Teardown(c) ==
  /\ phase[c] = "live"
  /\ phase' = [phase EXCEPT ![c] = "dead"]
  /\ last' = Outcome("teardown", c, Completion(NoValue, store, "none", FALSE))
  /\ UNCHANGED <<store, open, win, storedValue, capturedValue, inbox, clean>>

\* code outside the hook, in a context of its own, sets or removes an entry
ExternalSet(k, t) ==
  /\ CanBroadcast(0)
  /\ store' = [store EXCEPT ![k] = t]
  /\ inbox' = Broadcast(0, k, store[k], t)
  /\ last' = Outcome("external", 0, Completion(NoValue, store, "none", TRUE))
  /\ clean' = FALSE
  /\ UNCHANGED <<open, win, phase, storedValue, capturedValue>>

StorageNext ==
  \/ \E c \in open, f \in BOOLEAN : Create(c, f)
  \/ \E c \in open, a \in Args, f \in BOOLEAN : Write(c, a, f)
  \/ \E c \in open, f \in BOOLEAN : Clear(c, f)
  \/ \E c \in open : Deliver(c)
  \/ \E c \in open : Render(c)
  \/ \E c \in open : Teardown(c)
  \/ \E k \in Keys, t \in ExternalTexts \cup {NoItem} : ExternalSet(k, t)

\* two tabs of one origin, both with a window, each about to mount a cell
\* on the key; the entry is absent or was left by an earlier session
SharedInit ==
  /\ store \in [Keys -> {NoItem, "\"light\"", "\"dark\""}]
  /\ store["other"] = NoItem
  /\ open = Contexts
  /\ win = [c \in Contexts |-> TRUE]
  /\ phase = [c \in Contexts |-> "none"]
  /\ storedValue = [c \in Contexts |-> NoValue]
  /\ capturedValue = [c \in Contexts |-> NoValue]
  /\ inbox = [c \in Contexts |-> <<>>]
  /\ clean = FALSE
  /\ last = [op |-> "init", ctx |-> 0, exc |-> "none", warned |-> FALSE,
             threw |-> FALSE, accessed |-> FALSE]

\* a call of setValue that completes without an exception and stores the
\* JSON text of a JSON value
SharedWrite(c, arg) ==
  /\ Write(c, arg, FALSE)
  /\ last'.exc = "none"
  /\ storedValue'[c] \in JSONValues

\* the two tabs mount their cells, write, render and receive storage events
\* in any order; nothing fails and nothing else touches the store
SharedNext ==
  \/ \E c \in open : Create(c, FALSE)
  \/ \E c \in open, a \in Args : SharedWrite(c, a)
  \/ \E c \in open : Deliver(c)
  \/ \E c \in open : Render(c)

(***************************************************************************)
(*                 useMediaQuery: the media-query tracker                  *)
(* The same component is followed in two environments that evaluate the    *)
(* queries alike: one whose MediaQueryList has addEventListener and one    *)
(* that only has addListener.  Both receive the same renders and the same  *)
(* changes of the viewport.                                                *)
(***************************************************************************)
VARIABLES
  env,              \* matchMedia(query).matches for each query
  trackers          \* per environment: the state of the hook

mvars == <<env, trackers>>

\* the queries of useIsMobile, useIsTablet and useIsDesktop
Queries == {"(max-width: 768px)",
            "(min-width: 769px) and (max-width: 1024px)",
            "(min-width: 1025px)"}
NoQuery == "<none>"

\* the two environments, named after the registration they offer
Mechs == {"addEventListener", "addListener"}

\* if (media.addEventListener)
HasAddEventListener(mech) == mech = "addEventListener"

\* the registration the effect uses in this environment
Registration(mech) ==
  IF HasAddEventListener(mech) THEN "addEventListener" ELSE "addListener"

\* media.addEventListener('change', listener) or media.addListener(listener)
Subscribe(mech, ls, q) == ls \cup {[query |-> q, via |-> Registration(mech)]}

\* a cleanup that removes nothing
KeepListener(mech, ls, q) == ls

\* a cleanup that calls removeEventListener in either environment
RemoveEventListenerOnly(mech, ls, q) ==
  ls \ {[query |-> q, via |-> "addEventListener"]}

\* the cleanup: media.removeEventListener('change', listener) or
\* media.removeListener(listener), on the list of the effect's query
Unsubscribe(mech, ls, q) == ls \ {[query |-> q, via |-> Registration(mech)]}

\* useState(false)
InitialMatches == FALSE

\* a component that is not mounted
Unmounted ==
  [mounted |-> FALSE, query |-> NoQuery, matches |-> InitialMatches,
   returned |-> InitialMatches, listeners |-> {},
   cause |-> "none", firstReturned |-> InitialMatches,
   evalAtRender |-> InitialMatches]

\* a render: the hook returns the matches state
Rendered(t) == [t EXCEPT !.returned = t.matches]

\* the effect for the query of the latest render: setMatches(media.matches),
\* the registration of the listener, and the render the state update causes
Effect(mech, t, e) ==
  Rendered([t EXCEPT !.matches = e[t.query],
                     !.listeners = Subscribe(mech, @, t.query)])

\* a listener that leaves the state alone
ListenerIdle(t, m) == t

\* the listener: setMatches(e.matches), and the render that follows; React
\* drops the update of an unmounted component
Listener(t, m) == IF t.mounted THEN Rendered([t EXCEPT !.matches = m]) ELSE t

\* the MediaQueryList of q dispatches a change event to its listeners
Notified(t, q, m) ==
  IF \E l \in t.listeners : l.query = q THEN Listener(t, m) ELSE t

\* the component mounts with query q: the first render, then the effect.
\* cause, firstReturned and evalAtRender are history: what the render that
\* first saw the query returned, and what the query evaluated to then
Mounting(mech, q, e) ==
  LET first == Rendered([Unmounted EXCEPT !.mounted = TRUE, !.query = q])
  IN Effect(mech, [first EXCEPT !.cause = "mount",
                                !.firstReturned = first.returned,
                                !.evalAtRender = e[q]], e)

\* the component renders with query q; when q differs from the query of the
\* latest effect the cleanup and the effect run after the render
Rendering(mech, t, q, e) ==
  LET r == Rendered(t) IN
    IF q = t.query THEN r
    ELSE Effect(mech,
                [r EXCEPT !.query = q,
                          !.listeners = Unsubscribe(mech, @, t.query),
                          !.cause = "query",
                          !.firstReturned = r.returned,
                          !.evalAtRender = e[q]], e)

\* the component unmounts: the cleanup runs
Unmounting(mech, t) ==
  [t EXCEPT !.mounted = FALSE,
            !.listeners = Unsubscribe(mech, @, t.query)]

MediaInit ==
  /\ env \in [Queries -> BOOLEAN]
  /\ trackers = [mech \in Mechs |-> Unmounted]

MMount(q) ==
  /\ \A mech \in Mechs : ~trackers[mech].mounted
  /\ trackers' = [mech \in Mechs |-> Mounting(mech, q, env)]
  /\ UNCHANGED env

MRender(q) ==
  /\ \A mech \in Mechs : trackers[mech].mounted
  /\ trackers' = [mech \in Mechs |-> Rendering(mech, trackers[mech], q, env)]
  /\ UNCHANGED env

\* the viewport changes so that q evaluates differently
EnvChange(q) ==
  /\ env' = [env EXCEPT ![q] = ~@]
  /\ trackers' = [mech \in Mechs |-> Notified(trackers[mech], q, env'[q])]

MUnmount ==
  /\ \A mech \in Mechs : trackers[mech].mounted
  /\ trackers' = [mech \in Mechs |-> Unmounting(mech, trackers[mech])]
  /\ UNCHANGED env

MediaNext ==
  \/ \E q \in Queries : MMount(q)
  \/ \E q \in Queries : MRender(q)
  \/ \E q \in Queries : EnvChange(q)
  \/ MUnmount

MediaIdle ==
  /\ env = [q \in Queries |-> FALSE]
  /\ trackers = [mech \in Mechs |-> Unmounted]

\* the other hook is not in use
DebounceIdle ==
  /\ value = "a" /\ delayProp = [given |-> FALSE, ms |-> 0]
  /\ debouncedValue = "a" /\ timers = {} /\ handler = 0 /\ nextTimerId = 1
  /\ mounted = FALSE /\ sinceArm = 0 /\ armCause = "none"
  /\ committedAtArm = "a" /\ sinceInput = 0

StorageIdle ==
  /\ store = [k \in Keys |-> NoItem]
  /\ open = {}
  /\ win = [c \in Contexts |-> TRUE]
  /\ phase = [c \in Contexts |-> "none"]
  /\ storedValue = [c \in Contexts |-> NoValue]
  /\ capturedValue = [c \in Contexts |-> NoValue]
  /\ inbox = [c \in Contexts |-> <<>>]
  /\ clean = FALSE
  /\ last = [op |-> "init", ctx |-> 0, exc |-> "none", warned |-> FALSE,
             threw |-> FALSE, accessed |-> FALSE]

vars == <<dvars, svars, mvars>>

\* the debounced value alone
InitDebounce == DebounceInit /\ StorageIdle /\ MediaIdle
NextDebounce == DebounceNext /\ UNCHANGED <<svars, mvars>>
SpecDebounce == InitDebounce /\ [][NextDebounce]_vars

\* the persisted cell alone
InitStorage == StorageInit /\ DebounceIdle /\ MediaIdle
NextStorage == StorageNext /\ UNCHANGED <<dvars, mvars>>
SpecStorage == InitStorage /\ [][NextStorage]_vars

\* the persisted cell in two tabs that share the store
InitShared == SharedInit /\ DebounceIdle /\ MediaIdle
NextShared == SharedNext /\ UNCHANGED <<dvars, mvars>>
SpecShared == InitShared /\ [][NextShared]_vars

\* the media-query tracker alone
InitMedia == MediaInit /\ DebounceIdle /\ StorageIdle
NextMedia == MediaNext /\ UNCHANGED <<dvars, svars>>
SpecMedia == InitMedia /\ [][NextMedia]_vars

(***************************************************************************)
(*                     Properties of the debounced value                   *)
(***************************************************************************)
\* every due callback has run
TimersSettled == \A t \in timers : ~Due(t)

\* C1: when inputs supersede one another within the delay, a commit only
\* ever shows the latest input, never a superseded one, and once the delay
\* has elapsed after the last input change the returned value is that input.
C1_LastInputOnly ==
  /\ [][debouncedValue' # debouncedValue => debouncedValue' = value]_vars
  /\ [](mounted /\ armCause = "value" /\ sinceArm >= delay /\ TimersSettled
          => debouncedValue = value)

\* C1 witness: an input superseded an uncommitted one, was itself not
\* committed when it arrived, and is the returned value after the delay.
C1_Witness ==
  /\ mounted /\ armCause = "value" /\ handler >= 3
  /\ committedAtArm # value /\ debouncedValue = value
  /\ delay > 0 /\ sinceArm = delay /\ timers = {}

\* the delay of the latest render as the contract states it
ContractDelay == IF delayProp.given THEN delayProp.ms ELSE 300

\* C2: after an input change the returned value stays the value committed
\* before it for delay - 1 milliseconds and is the new input once delay
\* milliseconds have passed, the delay being 300 when omitted.
C2_CommitAtDelay ==
  /\ armCause = "value" /\ sinceArm < ContractDelay
       => debouncedValue = committedAtArm
  /\ mounted /\ armCause = "value" /\ sinceArm = ContractDelay /\ TimersSettled
       => debouncedValue = value

\* C2 witness: the default delay has just elapsed and the input is committed.
C2_Witness ==
  /\ ~delayProp.given /\ mounted /\ armCause = "value"
  /\ sinceArm = 300 /\ timers = {}
  /\ debouncedValue = value /\ committedAtArm # value

\* C3: after the unmount no timeout is pending and the returned value never
\* changes again, however much time passes.
C3_NoCommitAfterUnmount ==
  /\ [](~mounted => timers = {})
  /\ [][~mounted => debouncedValue' = debouncedValue /\ ~mounted']_vars

\* C3 witness: unmounted with an uncommitted input, and the delay of that
\* input has passed.
C3_Witness ==
  /\ ~mounted /\ debouncedValue # value
  /\ sinceArm > delay


(***************************************************************************)
(*                     Properties of the persisted cell                    *)
(***************************************************************************)
\* the JSON text of each JSON value, as the JSON grammar fixes it
JSONText == [v \in JSONValues |->
               CASE v = "'light'" -> "\"light\""
                 [] v = "'dark'" -> "\"dark\""
                 [] v = "null" -> "null"]
ValidJSON == {JSONText[v] : v \in JSONValues}
JSONValueOf(t) == CHOOSE v \in JSONValues : JSONText[v] = t

\* the value a cell created now on the same key would start with
FreshRead(st) == Initializer(TRUE, st, FALSE).value

\* the value a write asks for
Requested(c, a) ==
  IF a.fn THEN ApplyUpdater(a.v, capturedValue[c]) ELSE a.v

\* C4: a write of a JSON value that the store accepts leaves that value in
\* memory and its JSON text in the store under the key, so that a cell
\* created afterwards on the same key reads the value back.
C4_WriteReadRoundTrip ==
  [][\A c \in Contexts, v \in JSONValues :
       Write(c, [fn |-> FALSE, v |-> v], FALSE) /\ win[c]
         => /\ storedValue'[c] = v
            /\ store'[Key] = JSONText[v]
            /\ FreshRead(store') = v]_vars

\* C4 witness: an accepted write has put 'dark' in memory and in the store.
C4_Witness ==
  /\ last.op = "write" /\ last.exc = "none" /\ last.accessed
  /\ storedValue[last.ctx] = "'dark'"
  /\ store[Key] = "\"dark\""
  /\ capturedValue[last.ctx] = "'light'"

\* C5: a clear whose deletion does not fail leaves the fallback in memory
\* and no entry under the key, a cell created afterwards reads the fallback,
\* and when there was no entry the store is as before.
C5_ClearYieldsFallback ==
  [][\A c \in Contexts :
       Clear(c, FALSE)
         => /\ storedValue'[c] = Fallback
            /\ win[c] => store'[Key] = NoItem /\ FreshRead(store') = Fallback
            /\ store[Key] = NoItem => store' = store]_vars

\* C5 witness: a clear has removed the entry of a cell that held 'dark'.
C5_Witness ==
  /\ last.op = "clear" /\ last.exc = "none" /\ last.accessed
  /\ capturedValue[last.ctx] = "'dark'"
  /\ storedValue[last.ctx] = Fallback
  /\ store[Key] = NoItem

\* C6: a mounted cell that is dispatched a storage event for its key whose
\* new value is a JSON text holds the value of that text afterwards,
\* whatever it held before.
C6_NotificationAdopted ==
  [][\A c \in Contexts :
       /\ Deliver(c)
       /\ phase[c] = "live" /\ win[c]
       /\ Head(inbox[c]).key = Key
       /\ Head(inbox[c]).newValue \in ValidJSON
       => storedValue'[c] = JSONValueOf(Head(inbox[c]).newValue)]_vars

\* C6 witness: the cell rendered 'light' and a notification made it 'dark'.
C6_Witness ==
  /\ last.op = "notify" /\ last.exc = "none"
  /\ capturedValue[last.ctx] = "'light'"
  /\ storedValue[last.ctx] = "'dark'"
  /\ store[Key] = "\"dark\""

\* C7: a clear whose store deletion fails absorbs the failure and still
\* leaves the fallback in memory.
C7_ClearResetsOnDeleteFailure ==
  last.op = "clear" /\ last.exc = "removeItem"
    => storedValue[last.ctx] = Fallback /\ ~last.threw

\* C8: a write whose serialization or store write fails leaves the new
\* value in memory and the store as it was, and throws nothing.
C8_FailedWriteIsOptimistic ==
  [][\A c \in Contexts, a \in Args, f \in BOOLEAN :
       /\ Write(c, a, f)
       /\ win[c]
       /\ ~(a.fn /\ UpdaterThrows(a.v))
       /\ f \/ Requested(c, a) = "{cyclic}"
       => /\ storedValue'[c] = Requested(c, a)
          /\ store' = store
          /\ ~last'.threw]_vars

\* C8 witness: the store refused 'dark'; memory holds it, the store not.
C8_Witness ==
  /\ last.op = "write" /\ last.exc = "setItem"
  /\ storedValue[last.ctx] = "'dark'"
  /\ store[Key] # "\"dark\""

\* C9 as stated: on creation the value is that of a valid entry; with the
\* entry absent or not deserializable it is the fallback and a warning is
\* logged; without a window it is the fallback and the store is not touched.
C9_CreateWarnsOnAbsent ==
  last.op = "create" /\ last.exc # "getItem" =>
    IF ~win[last.ctx]
      THEN storedValue[last.ctx] = Fallback /\ ~last.accessed
    ELSE IF store[Key] \in ValidJSON
      THEN storedValue[last.ctx] = JSONValueOf(store[Key])
    ELSE storedValue[last.ctx] = Fallback /\ last.warned

\* C9 amended: as C9, but an absent or empty entry gives the fallback with
\* no warning; the warning is logged when the entry is a non-empty text that
\* is not JSON or when reading the store fails.
C9_CreateFallsBack ==
  last.op = "create" =>
    IF ~win[last.ctx]
      THEN storedValue[last.ctx] = Fallback /\ ~last.accessed /\ ~last.warned
    ELSE IF last.exc = "getItem"
      THEN storedValue[last.ctx] = Fallback /\ last.warned
    ELSE IF store[Key] \in ValidJSON
      THEN storedValue[last.ctx] = JSONValueOf(store[Key]) /\ ~last.warned
    ELSE IF store[Key] \in {NoItem, ""}
      THEN storedValue[last.ctx] = Fallback /\ ~last.warned
    ELSE storedValue[last.ctx] = Fallback /\ last.warned

\* C9 witness: a cell was created over an absent entry, silently.
C9_Witness ==
  /\ last.op = "create" /\ win[last.ctx] /\ last.accessed
  /\ store[Key] = NoItem
  /\ storedValue[last.ctx] = Fallback /\ ~last.warned

\* C10: whatever fails, no operation throws to its caller, and a cell that
\* absorbed a failure is still mounted and accepts a write, a clear and the
\* next notification.
C10_NoErrorSurfaces ==
  /\ ~last.threw
  /\ last.op \in {"create", "write", "clear", "notify"} /\ last.exc # "none"
       => /\ phase[last.ctx] = "live"
          /\ ENABLED Write(last.ctx, [fn |-> FALSE, v |-> Fallback], FALSE)
          /\ ENABLED Clear(last.ctx, FALSE)
          /\ inbox[last.ctx] # <<>> => ENABLED Deliver(last.ctx)

\* C10 witness: a notification that could not be parsed was absorbed.
C10_Witness ==
  /\ last.op = "notify" /\ last.exc = "parse" /\ last.warned
  /\ phase[last.ctx] = "live"

\* C11: a functional write is applied to the value in memory, also when it
\* follows another write with no render in between.
C11_UpdaterSeesMemory ==
  [][\A c \in Contexts, f \in Updaters :
       Write(c, [fn |-> TRUE, v |-> f], FALSE) /\ ~UpdaterThrows(f)
         => storedValue'[c] = ApplyUpdater(f, storedValue[c])]_vars

\* C12: in one context, while no store operation has failed, after
\* creation, writes and clears the value of a mounted cell is the value of
\* the JSON entry under the key, and the fallback when there is no valid
\* entry.
C12_MemoryMirrorsStore ==
  \A c \in open :
    clean /\ phase[c] = "live" /\ win[c] =>
      IF store[Key] \in ValidJSON
        THEN storedValue[c] = JSONValueOf(store[Key])
        ELSE storedValue[c] = Fallback

\* C12 witness: a functional write over a stale render left 'dark' in
\* memory and in the store.
C12_Witness ==
  /\ clean /\ last.op = "write" /\ phase[1] = "live" /\ win[1]
  /\ storedValue[1] = "'dark'" /\ store[Key] = "\"dark\""
  /\ capturedValue[1] = "null"

\* C16: a storage event for another key, or for the cell's key with a null
\* new value, changes neither the value in memory nor the store.
C16_ForeignEventIgnored ==
  [][\A c \in Contexts :
       /\ Deliver(c)
       /\ Head(inbox[c]).key # Key \/ Head(inbox[c]).newValue = NoItem
       => storedValue'[c] = storedValue[c] /\ store' = store]_vars

\* C16 witness: the entry was removed in another context and the cell,
\* notified of it, still holds 'dark'.
C16_Witness ==
  /\ last.op = "ignore" /\ phase[last.ctx] = "live"
  /\ storedValue[last.ctx] = "'dark'"
  /\ store[Key] = NoItem

\* C21: two tabs each hold a mounted cell on the key and make only
\* successful writes; whenever no storage event is pending, both cells hold
\* the value of the JSON entry under the key.
C21_SharedCellsConverge ==
  /\ \A c \in Contexts : phase[c] = "live" /\ inbox[c] = <<>>
  /\ store[Key] \in ValidJSON
  => \A c \in Contexts : storedValue[c] = JSONValueOf(store[Key])

(***************************************************************************)
(*              Further properties of the debounced value                  *)
(***************************************************************************)
\* C18 as stated: a render with the same input while a commit is pending
\* rearms the timeout, so that every commit comes at least the delay after
\* the latest render.
C18_RepeatReschedules ==
  [][debouncedValue' # debouncedValue /\ sinceInput < InputWindow
       => sinceInput >= delay]_vars

\* C18 amended: a render with the same value and the same delay leaves the
\* pending timeout as armed, so the commit comes the delay after the input
\* first arrived, whatever renders repeated it since.
C18_RepeatKeepsTimer ==
  /\ [][\A v \in DValues, a \in DelayArgs :
          /\ Rerender(v, a) \/ RerenderSameDeps(v, a)
          /\ v = value
          /\ (IF a.given THEN a.ms ELSE 300) = ContractDelay
          => timers' = timers /\ handler' = handler]_vars
  /\ [](mounted /\ armCause = "value" /\ sinceInput < sinceArm
          /\ sinceArm = ContractDelay /\ TimersSettled
          => debouncedValue = value)

\* C18 witness: the input was repeated one millisecond before the delay of
\* its first arrival ran out, and it is committed at that moment.
C18_Witness ==
  /\ mounted /\ armCause = "value"
  /\ sinceInput = 1 /\ sinceArm = 2 /\ delay = 2
  /\ timers = {} /\ debouncedValue = value /\ committedAtArm # value

\* C20: at most one timeout is pending, and it is the one of the latest
\* effect with the latest input; a change of the input or of the delay
\* replaces it, and a commit is always made by that timeout.
C20_OnePendingTimer ==
  /\ [](/\ Cardinality(timers) <= 1
        /\ \A t \in timers : t.id = handler /\ t.val = value)
  /\ [][\A v \in DValues, a \in DelayArgs :
          Rerender(v, a) => \A t \in timers' : t \notin timers]_vars
  /\ [][debouncedValue' # debouncedValue
          => \E t \in timers : t.id = handler /\ Due(t) /\ t.val = debouncedValue'
                               /\ timers' = {}]_vars

\* C20 witness: a change of the delay replaced a timeout that was running.
C20_Witness ==
  /\ mounted /\ armCause = "delay" /\ handler >= 3
  /\ Cardinality(timers) = 1 /\ sinceArm > 0
  /\ debouncedValue # value

(***************************************************************************)
(*                  Properties of the media-query tracker                  *)
(***************************************************************************)
\* C13: the first value the hook returns after mounting is what the query
\* evaluates to at that moment.
C13_FirstValueIsEvaluation ==
  \A mech \in Mechs :
    trackers[mech].cause = "mount"
      => trackers[mech].firstReturned = trackers[mech].evalAtRender

\* C14: while mounted, a change event of the observed query leaves its match
\* state as the returned value, the returned value for a query changes at no
\* other moment, and after the unmount no event changes it.
C14_FollowsNotifications ==
  /\ [][\A mech \in Mechs, q \in Queries :
          EnvChange(q) /\ trackers[mech].mounted /\ q = trackers[mech].query
            => trackers'[mech].returned = env'[q]]_vars
  /\ [][\A mech \in Mechs :
          /\ trackers[mech].mounted /\ trackers'[mech].mounted
          /\ trackers'[mech].query = trackers[mech].query
          /\ trackers'[mech].returned # trackers[mech].returned
          => /\ env'[trackers[mech].query] # env[trackers[mech].query]
             /\ trackers'[mech].returned = env'[trackers[mech].query]]_vars
  /\ [][\A mech \in Mechs :
          ~trackers[mech].mounted /\ ~trackers'[mech].mounted
            => trackers'[mech].returned = trackers[mech].returned]_vars

\* C14 witness: a change event made the returned value differ from what the
\* query evaluated to when the tracker first saw it.
C14_Witness ==
  \E mech \in Mechs :
    /\ trackers[mech].mounted
    /\ trackers[mech].returned # trackers[mech].evalAtRender
    /\ trackers[mech].returned = env[trackers[mech].query]

\* C15: a mounted tracker holds exactly one listener and it is on the list
\* of the current query, also after the query changed; an unmounted tracker
\* holds none.
C15_OneSubscription ==
  \A mech \in Mechs :
    IF trackers[mech].mounted
      THEN /\ Cardinality(trackers[mech].listeners) = 1
           /\ \A l \in trackers[mech].listeners :
                l.query = trackers[mech].query
      ELSE trackers[mech].listeners = {}

\* C15 witness: the query changed and the one listener is on the new query.
C15_Witness ==
  \A mech \in Mechs :
    /\ trackers[mech].mounted /\ trackers[mech].cause = "query"
    /\ trackers[mech].listeners =
         {[query |-> trackers[mech].query, via |-> mech]}

\* C17: the render that first sees a changed query returns what the new
\* query evaluates to, not the match state of the old query.
C17_NoStaleMatchAfterQueryChange ==
  \A mech \in Mechs :
    trackers[mech].cause = "query"
      => trackers[mech].firstReturned = trackers[mech].evalAtRender

\* C19: without addEventListener the tracker registers with addListener and
\* releases with removeListener, and through every run it returns the same
\* values and holds as many listeners as the tracker that has
\* addEventListener.
C19_LegacyEquivalent ==
  LET legacy == trackers["addListener"]
      modern == trackers["addEventListener"] IN
    /\ \A l \in legacy.listeners : l.via = "addListener"
    /\ legacy.returned = modern.returned
    /\ legacy.firstReturned = modern.firstReturned
    /\ Cardinality(legacy.listeners) = Cardinality(modern.listeners)
    /\ ~legacy.mounted => legacy.listeners = {}

\* C19 witness: after a change of query and a change event the legacy
\* tracker was unmounted and its listener is gone.
C19_Witness ==
  LET legacy == trackers["addListener"] IN
    /\ ~legacy.mounted /\ legacy.cause = "query"
    /\ legacy.returned # legacy.evalAtRender
    /\ legacy.listeners = {}

====
